---- MODULE Spec2Model ----
(***************************************************************************)
(* Model of website/models.py: the persistence schema of the tuning        *)
(* website.  The stored rows are the state; the operations are the         *)
(* overridden delete methods (Project.delete, Application.delete), the     *)
(* clean_fields validators, Model.save, and the two derived views          *)
(* DBConf.get_tuning_configuration and                                     *)
(* DBMSMetrics.get_normalized_configuration.                               *)
(*                                                                         *)
(* Every ForeignKey of the file is declared without on_delete, which for   *)
(* the Django releases this Python 2 code runs on means CASCADE: the base  *)
(* Model.delete removes the row together with every row that references it,*)
(* transitively, in one transaction.                                       *)
(***************************************************************************)
EXTENDS Integers, Sequences, FiniteSets, TLC

VARIABLES
    db,        \* the stored rows: table name -> set of rows (records with an id)
    pc,        \* position of the running delete call, "idle" when none runs
    top,       \* the delete the caller invoked: "Project", "Application" or "none"
    self_p,    \* Project.delete: self (a Project id), 0 when not running
    apps,      \* Project.delete: the Applications of `apps` not yet iterated
    self_a,    \* Application.delete: self (an Application id), 0 when not running
    targets,   \* Application.delete: the DBConfs of `targets` not yet iterated
    results,   \* Application.delete: the Results of `results` not yet iterated
    expconfs,  \* Application.delete: the BenchmarkConfigs not yet iterated
    pre,       \* history: db when the top-level delete was called
    seq,       \* the primary keys handed out so far: table name -> last id
    obj,       \* the model instance in memory (validated, saved), or NoObj
    outcome,   \* what the last clean_fields call did
    ret        \* what the last view call returned or raised

vars == <<db, pc, top, self_p, apps, self_a, targets, results, expconfs, pre,
          seq, obj, outcome, ret>>

delVars == <<pc, top, self_p, apps, self_a, targets, results, expconfs, pre>>

-----------------------------------------------------------------------------
(* Bounds of the model.                                                    *)

\* the Result rows, which hold the foreign keys that cross applications
NResult == 2

ResultIds == 1 .. NResult
\* two projects and two applications: one to delete and one to leave alone
ProjectIds == {1, 2}
ApplicationIds == {1, 2}
\* one row each of the other tables puts every foreign key to use
ConfIds == {1}
AuxIds == {1}

-----------------------------------------------------------------------------
(* The schema.                                                             *)

Tables ==
    {"DBMSCatalog", "KnobCatalog", "MetricCatalog", "Project", "Hardware",
     "Application", "BenchmarkConfig", "DBConf", "DBMSMetrics", "Result",
     "ResultData", "Task", "Statistics"}

\* <<referencing table, field, referenced table>>, one per models.ForeignKey
\* between the models of the file (the two foreign keys to auth.User are not
\* modelled: no operation of the file removes a User)
ForeignKeys ==
    { <<"KnobCatalog", "dbms", "DBMSCatalog">>,
      <<"MetricCatalog", "dbms", "DBMSCatalog">>,
      <<"Application", "hardware", "Hardware">>,
      <<"Application", "project", "Project">>,
      <<"BenchmarkConfig", "application", "Application">>,
      <<"DBConf", "application", "Application">>,
      <<"DBConf", "dbms", "DBMSCatalog">>,
      <<"DBMSMetrics", "application", "Application">>,
      <<"DBMSMetrics", "dbms", "DBMSCatalog">>,
      <<"Result", "application", "Application">>,
      <<"Result", "dbms", "DBMSCatalog">>,
      <<"Result", "benchmark_config", "BenchmarkConfig">>,
      <<"Result", "dbms_config", "DBConf">>,
      <<"Result", "dbms_metrics", "DBMSMetrics">>,
      <<"ResultData", "dbms", "DBMSCatalog">>,
      <<"ResultData", "hardware", "Hardware">>,
      <<"ResultData", "result", "Result">>,
      <<"Task", "result", "Result">>,
      <<"Statistics", "result", "Result">>
    }

Ids(d, t) == { r.id : r \in d[t] }

Row(d, t, i) == CHOOSE r \in d[t] : r.id = i

\* Manager.filter(field=value) on table t
Filter(d, t, field, value) == { r.id : r \in { x \in d[t] : x[field] = value } }

\* Referrers as it would be if DBMSMetrics.application did not cascade
ReferrersButMetricsOwner(d, S) ==
    UNION { { <<fk[1], r.id>> : r \in { x \in d[fk[1]] : <<fk[3], x[fk[2]]>> \in S } }
            : fk \in ForeignKeys \ { <<"DBMSMetrics", "application", "Application">> } }

\* the rows <<table, id>> holding a foreign key to a row of S
Referrers(d, S) ==
    UNION { { <<fk[1], r.id>> : r \in { x \in d[fk[1]] : <<fk[3], x[fk[2]]>> \in S } }
            : fk \in ForeignKeys }

\* Collector.collect: the rows to delete with S, following CASCADE
RECURSIVE Collect(_, _)
Collect(d, S) ==
    LET T == S \cup Referrers(d, S)
    IN  IF T = S THEN S ELSE Collect(d, T)

\* models.Model.delete of row i of table t
ModelDelete(d, t, i) ==
    LET C == Collect(d, { <<t, i>> })
    IN  [u \in Tables |-> { r \in d[u] : <<u, r.id>> \notin C }]

-----------------------------------------------------------------------------
(* The delete methods.  A QuerySet is lazy: it is evaluated when its for   *)
(* loop starts, and the rows come back in no stated order.                 *)

NoCall ==
    /\ pc = "idle" /\ top = "none" /\ self_p = 0 /\ self_a = 0
    /\ apps = {} /\ targets = {} /\ results = {} /\ expconfs = {}

\* Application.delete is entered for application a: `for t in targets` starts
EnterApplicationDelete(a) ==
    /\ self_a' = a
    /\ targets' = Filter(db, "DBConf", "application", a)
    /\ results' = {}
    /\ expconfs' = {}
    /\ pc' = "for_t"

\* Project.delete(p) is called: `for x in apps` starts
ProjectDelete(p) ==
    /\ pc = "idle"
    /\ p \in Ids(db, "Project")
    /\ top' = "Project"
    /\ self_p' = p
    /\ pre' = db
    /\ apps' = Filter(db, "Application", "project", p)
    /\ pc' = "for_x_apps"
    /\ UNCHANGED <<db, self_a, targets, results, expconfs, seq, obj, outcome, ret>>

\* the body of `for x in apps`: x.delete()
ProjectDeleteNextApp ==
    /\ pc = "for_x_apps"
    /\ \E x \in apps :
          /\ apps' = apps \ {x}
          /\ EnterApplicationDelete(x)
    /\ UNCHANGED <<db, top, self_p, pre, seq, obj, outcome, ret>>

\* ProjectDeleteSuper as it would be if line 72 were missing
ProjectDeleteSuperSkipped ==
    /\ pc = "for_x_apps"
    /\ apps = {}
    /\ pc' = "done"
    /\ UNCHANGED <<db, top, self_p, apps, self_a, targets, results, expconfs, pre,
                   seq, obj, outcome, ret>>

\* super(Project, self).delete(using), and the return to the caller
ProjectDeleteSuper ==
    /\ pc = "for_x_apps"
    /\ apps = {}
    /\ db' = ModelDelete(db, "Project", self_p)
    /\ pc' = "done"
    /\ UNCHANGED <<top, self_p, apps, self_a, targets, results, expconfs, pre,
                   seq, obj, outcome, ret>>

\* Application.delete(a) is called by the user of the model
ApplicationDelete(a) ==
    /\ pc = "idle"
    /\ a \in Ids(db, "Application")
    /\ top' = "Application"
    /\ pre' = db
    /\ EnterApplicationDelete(a)
    /\ UNCHANGED <<db, self_p, apps, seq, obj, outcome, ret>>

\* the body of `for t in targets`: t.delete()
ApplicationDeleteTarget ==
    /\ pc = "for_t"
    /\ \E t \in targets :
          /\ targets' = targets \ {t}
          /\ db' = ModelDelete(db, "DBConf", t)
    /\ UNCHANGED <<pc, top, self_p, apps, self_a, results, expconfs, pre,
                   seq, obj, outcome, ret>>

\* ApplicationDeleteResults as it would be if the filter were left out
ApplicationDeleteResultsAll ==
    /\ pc = "for_t"
    /\ targets = {}
    /\ results' = Ids(db, "Result")
    /\ pc' = "for_r"
    /\ UNCHANGED <<db, top, self_p, apps, self_a, targets, expconfs, pre,
                   seq, obj, outcome, ret>>

\* `for t in targets` ends and `for r in results` starts
ApplicationDeleteResults ==
    /\ pc = "for_t"
    /\ targets = {}
    /\ results' = Filter(db, "Result", "application", self_a)
    /\ pc' = "for_r"
    /\ UNCHANGED <<db, top, self_p, apps, self_a, targets, expconfs, pre,
                   seq, obj, outcome, ret>>

\* the body of `for r in results`: r.delete()
ApplicationDeleteResult ==
    /\ pc = "for_r"
    /\ \E r \in results :
          /\ results' = results \ {r}
          /\ db' = ModelDelete(db, "Result", r)
    /\ UNCHANGED <<pc, top, self_p, apps, self_a, targets, expconfs, pre,
                   seq, obj, outcome, ret>>

\* ApplicationDeleteExpconfs as it would be if the loop over expconfs were missing
ApplicationDeleteExpconfsSkipped ==
    /\ pc = "for_r"
    /\ results = {}
    /\ expconfs' = {}
    /\ pc' = "for_x"
    /\ UNCHANGED <<db, top, self_p, apps, self_a, targets, results, pre,
                   seq, obj, outcome, ret>>

\* `for r in results` ends and `for x in expconfs` starts
ApplicationDeleteExpconfs ==
    /\ pc = "for_r"
    /\ results = {}
    /\ expconfs' = Filter(db, "BenchmarkConfig", "application", self_a)
    /\ pc' = "for_x"
    /\ UNCHANGED <<db, top, self_p, apps, self_a, targets, results, pre,
                   seq, obj, outcome, ret>>

\* the body of `for x in expconfs`: x.delete()
ApplicationDeleteExpconf ==
    /\ pc = "for_x"
    /\ \E x \in expconfs :
          /\ expconfs' = expconfs \ {x}
          /\ db' = ModelDelete(db, "BenchmarkConfig", x)
    /\ UNCHANGED <<pc, top, self_p, apps, self_a, targets, results, pre,
                   seq, obj, outcome, ret>>

\* super(Application, self).delete(using), and the return to the caller
ApplicationDeleteSuper ==
    /\ pc = "for_x"
    /\ expconfs = {}
    /\ db' = ModelDelete(db, "Application", self_a)
    /\ pc' = IF top = "Project" THEN "for_x_apps" ELSE "done"
    /\ UNCHANGED <<top, self_p, apps, self_a, targets, results, expconfs, pre,
                   seq, obj, outcome, ret>>

\* the caller goes on after the delete call has returned
Return ==
    /\ pc = "done"
    /\ pc' = "idle"
    /\ top' = "none"
    /\ self_p' = 0
    /\ self_a' = 0
    /\ UNCHANGED <<db, apps, targets, results, expconfs, pre, seq, obj, outcome, ret>>

-----------------------------------------------------------------------------
(* Stored states.                                                          *)

NoObj == [model |-> "none"]
NoOutcome == [raised |-> FALSE, message |-> "not called", exclude |-> {}]
NoReturn == [kind |-> "not called"]

\* the sets of rows with distinct ids drawn from DOMAIN R, row i drawn from R[i]
RowSets(R) ==
    UNION { { { f[i] : i \in J }
              : f \in { g \in [J -> UNION { R[i] : i \in J }] :
                          \A i \in J : g[i] \in R[i] } }
            : J \in SUBSET DOMAIN R }

EmptyBlob == <<>>

OneDBMS == { [id |-> 1] }
OneHardware == { [id |-> 1] }
OneKnob == { [id |-> 1, dbms |-> 1, name |-> "k1", tunable |-> TRUE] }
OneMetric ==
    { [id |-> 1, dbms |-> 1, name |-> "m1", vartype |-> "INTEGER",
       metric_type |-> "COUNTER"] }

ApplicationRows(P, i) == { [id |-> i, project |-> p, hardware |-> 1] : p \in P }
BenchmarkConfigRows(A, i) == { [id |-> i, application |-> a, time |-> 1] : a \in A }
DBConfRows(A, i) ==
    { [id |-> i, application |-> a, dbms |-> 1, configuration |-> EmptyBlob] : a \in A }
DBMSMetricsRows(A, i) ==
    { [id |-> i, application |-> a, dbms |-> 1, execution_time |-> 1,
       configuration |-> EmptyBlob] : a \in A }
ResultRows(A, B, C, M, i) ==
    { [id |-> i, application |-> a, dbms |-> 1, benchmark_config |-> b,
       dbms_config |-> c, dbms_metrics |-> m] : a \in A, b \in B, c \in C, m \in M }
ResultDataRows(R, i) == { [id |-> i, dbms |-> 1, hardware |-> 1, result |-> r] : r \in R }
ResultChildRows(R, i) == { [id |-> i, result |-> r] : r \in R }

IdsOf(S) == { r.id : r \in S }

MaxId(S) == IF S = {} THEN 0 ELSE CHOOSE m \in IdsOf(S) : \A i \in IdsOf(S) : i <= m

\* every stored state within the bounds whose foreign keys are all valid
InitDelete ==
    /\ \E P \in SUBSET ProjectIds :
       \E A \in RowSets([i \in ApplicationIds |-> ApplicationRows(P, i)]) :
       \E B \in RowSets([i \in ConfIds |-> BenchmarkConfigRows(IdsOf(A), i)]) :
       \E C \in RowSets([i \in ConfIds |-> DBConfRows(IdsOf(A), i)]) :
       \E M \in RowSets([i \in ConfIds |-> DBMSMetricsRows(IdsOf(A), i)]) :
       \E R \in RowSets([i \in ResultIds |->
                            ResultRows(IdsOf(A), IdsOf(B), IdsOf(C), IdsOf(M), i)]) :
       \E D \in RowSets([i \in AuxIds |-> ResultDataRows(IdsOf(R), i)]) :
       \E T \in RowSets([i \in AuxIds |-> ResultChildRows(IdsOf(R), i)]) :
       \E S \in RowSets([i \in AuxIds |-> ResultChildRows(IdsOf(R), i)]) :
          db = [DBMSCatalog |-> OneDBMS, KnobCatalog |-> OneKnob,
                MetricCatalog |-> OneMetric, Hardware |-> OneHardware,
                Project |-> { [id |-> p] : p \in P }, Application |-> A,
                BenchmarkConfig |-> B, DBConf |-> C, DBMSMetrics |-> M,
                Result |-> R, ResultData |-> D, Task |-> T, Statistics |-> S]
    /\ pre = db
    /\ NoCall
    /\ seq = [t \in Tables |-> MaxId(db[t])]
    /\ obj = NoObj
    /\ outcome = NoOutcome
    /\ ret = NoReturn

NextDelete ==
    \/ \E p \in ProjectIds : ProjectDelete(p)
    \/ ProjectDeleteNextApp
    \/ ProjectDeleteSuper
    \/ \E a \in ApplicationIds : ApplicationDelete(a)
    \/ ApplicationDeleteTarget
    \/ ApplicationDeleteResults
    \/ ApplicationDeleteResult
    \/ ApplicationDeleteExpconfs
    \/ ApplicationDeleteExpconf
    \/ ApplicationDeleteSuper
    \/ Return

SpecDelete == InitDelete /\ [][NextDelete]_vars

-----------------------------------------------------------------------------
(* Properties of the delete methods.                                       *)

OwnedTables == {"DBConf", "BenchmarkConfig", "DBMSMetrics", "Result"}
ResultChildTables == {"ResultData", "Task", "Statistics"}
CatalogTables == {"Project", "Hardware", "DBMSCatalog", "KnobCatalog", "MetricCatalog"}

\* the rows of table t that belonged, when the call started, to an application of A
OwnedBefore(t, A) == { r \in pre[t] : r.application \in A }

\* the rows of table t whose result belonged, when the call started, to an application of A
ChildrenBefore(t, A) ==
    { r \in pre[t] : Row(pre, "Result", r.result).application \in A }

\* C1: when Project.delete(p) has completed, p is gone, no Application of p is
\* stored, and no DBConf, BenchmarkConfig, DBMSMetrics or Result of such an
\* application, nor any ResultData, Task or Statistics of such a Result, is stored.
C1_ProjectDeleteCascades ==
    (pc = "done" /\ top = "Project") =>
        LET A == Filter(pre, "Application", "project", self_p)
        IN  /\ self_p \notin Ids(db, "Project")
            /\ Filter(db, "Application", "project", self_p) = {}
            /\ A \cap Ids(db, "Application") = {}
            /\ \A t \in OwnedTables : IdsOf(OwnedBefore(t, A)) \cap Ids(db, t) = {}
            /\ \A t \in ResultChildTables :
                  IdsOf(ChildrenBefore(t, A)) \cap Ids(db, t) = {}

\* a Project.delete has completed that started with an application holding a
\* metrics row and a result with a Statistics row, and another project is left
C1_Witness ==
    /\ pc = "done" /\ top = "Project"
    /\ LET A == Filter(pre, "Application", "project", self_p)
       IN  /\ OwnedBefore("DBMSMetrics", A) # {}
           /\ ChildrenBefore("Statistics", A) # {}
    /\ db["Project"] # {}

\* C2: when Application.delete(a) has completed, no DBConf, BenchmarkConfig,
\* DBMSMetrics or Result with application = a is stored, and neither is a.
C2_ApplicationDeleteCascades ==
    (pc \in {"done", "for_x_apps"} /\ self_a # 0) =>
        /\ self_a \notin Ids(db, "Application")
        /\ \A t \in OwnedTables : Filter(db, t, "application", self_a) = {}
        /\ \A t \in OwnedTables : IdsOf(OwnedBefore(t, {self_a})) \cap Ids(db, t) = {}

\* an Application.delete has completed that started with a config of each kind,
\* a metrics row and a result of the application
C2_Witness ==
    /\ pc = "done" /\ top = "Application"
    /\ \A t \in OwnedTables : OwnedBefore(t, {self_a}) # {}
    /\ db["Application"] # {}

\* every foreign key of every stored row names a stored row
NoDanglingForeignKey ==
    \A fk \in ForeignKeys : \A r \in db[fk[1]] : r[fk[2]] \in Ids(db, fk[3])

\* the step removes an Application row only when its Results, DBConfs and
\* BenchmarkConfigs are gone, and a Project row only when its Applications are
RemovedChildrenFirst ==
    /\ \A a \in Ids(db, "Application") \ Ids(db', "Application") :
          \A t \in {"Result", "DBConf", "BenchmarkConfig"} :
             Filter(db, t, "application", a) = {}
    /\ \A p \in Ids(db, "Project") \ Ids(db', "Project") :
          Filter(db, "Application", "project", p) = {}

\* C8: in every state, the states between the row deletions of a running
\* delete included, every foreign key of every stored row names a stored row; and
\* the Results, DBConfs and BenchmarkConfigs of an application are removed in
\* steps before the one that removes the Application row, the Applications of a
\* project before the Project row.
C8_ChildrenRemovedFirst ==
    [] NoDanglingForeignKey /\ [][RemovedChildrenFirst]_vars

\* Application.delete is between its loops: a DBConf and the Result that
\* referenced it are gone while the Application row and its metrics are stored
C8_Witness ==
    /\ pc = "for_r"
    /\ self_a \in Ids(db, "Application")
    /\ \E c \in pre["DBConf"] : \E r \in pre["Result"] :
          /\ r.dbms_config = c.id
          /\ c.id \notin Ids(db, "DBConf")
          /\ r.id \notin Ids(db, "Result")
    /\ Filter(db, "DBMSMetrics", "application", self_a) # {}

\* the rows no Application.delete(a) may touch, common to C9 as stated and as amended
FrameOfOthers(a) ==
    /\ \A r \in pre["Application"] : r.id # a => r \in db["Application"]
    /\ \A t \in OwnedTables \ {"Result"} :
          \A r \in pre[t] : r.application # a => r \in db[t]
    /\ \A t \in CatalogTables : db[t] = pre[t]

\* C9 as stated: when Application.delete(a) has completed, every Application
\* other than a, every DBConf, BenchmarkConfig, DBMSMetrics and Result whose
\* application is not a, and every Project, Hardware and catalog row is stored
\* unchanged.
C9_Original ==
    (pc = "done" /\ top = "Application") =>
        /\ FrameOfOthers(self_a)
        /\ \A r \in pre["Result"] : r.application # self_a => r \in db["Result"]

\* does row i of table t belong to application a in the state the call started from
BelongedTo(t, i, a) == Row(pre, t, i).application = a

\* C9 as amended: the same, for the Results whose application is not a and
\* whose benchmark_config, dbms_config and dbms_metrics do not belong to a.
C9_FrameOfApplicationDelete ==
    (pc = "done" /\ top = "Application") =>
        /\ FrameOfOthers(self_a)
        /\ \A r \in pre["Result"] :
              ( /\ r.application # self_a
                /\ ~ BelongedTo("BenchmarkConfig", r.benchmark_config, self_a)
                /\ ~ BelongedTo("DBConf", r.dbms_config, self_a)
                /\ ~ BelongedTo("DBMSMetrics", r.dbms_metrics, self_a) )
              => r \in db["Result"]

\* an Application.delete(a) has completed, a Result of a is gone, and a Result
\* of another application, with configs and metrics of that application, is stored
C9_Witness ==
    /\ pc = "done" /\ top = "Application"
    /\ OwnedBefore("Result", {self_a}) # {}
    /\ \E r \in db["Result"] :
          /\ r.application # self_a
          /\ Row(db, "DBConf", r.dbms_config).application = r.application
          /\ Row(db, "DBMSMetrics", r.dbms_metrics).application = r.application

-----------------------------------------------------------------------------
(* Validation and saving.                                                  *)

\* the integers a time field takes in the model: -MaxTime .. MaxTime
MaxTime == 2
\* the rows of one table that are ever saved
MaxSaved == 1

TimeValues == (0 - MaxTime) .. MaxTime

\* the members of the choices of the two IntegerFields of MetricCatalog
VarTypes == {"STRING", "INTEGER", "REAL", "BOOL", "ENUM", "TIMESTAMP"}
MetricTypes == {"COUNTER", "INFO"}
\* a value that is no member of the choices
NoChoice == "OTHER"

\* a stored state with one row of each table an instance refers to
BaseDb ==
    [t \in Tables |->
        IF t \in {"DBMSCatalog", "Hardware", "Project"} THEN { [id |-> 1] }
        ELSE IF t = "Application" THEN ApplicationRows({1}, 1)
        ELSE {}]

\* primary keys: 1 is stored in BaseDb, 2 is not
KeyValues == {1, 2}

\* the instances MetricCatalog(...), BenchmarkConfig(...) and DBMSMetrics(...)
\* construct, not yet saved (id 0 stands for pk None)
MetricCatalogObjects ==
    { [model |-> "MetricCatalog", id |-> 0, dbms |-> d, name |-> "m1",
       vartype |-> v, metric_type |-> m]
      : d \in KeyValues, v \in VarTypes \cup {NoChoice}, m \in MetricTypes \cup {NoChoice} }
BenchmarkConfigObjects ==
    { [model |-> "BenchmarkConfig", id |-> 0, application |-> a, time |-> t]
      : a \in KeyValues, t \in TimeValues }
DBMSMetricsObjects ==
    { [model |-> "DBMSMetrics", id |-> 0, application |-> a, dbms |-> 1,
       execution_time |-> t, configuration |-> EmptyBlob]
      : a \in KeyValues, t \in TimeValues }

\* the modelled fields of a model that Model.clean_fields validates
FieldsOf(model) ==
    IF model = "MetricCatalog" THEN {"dbms", "vartype", "metric_type"}
    ELSE IF model = "BenchmarkConfig" THEN {"application", "time"}
    ELSE {"application", "dbms", "execution_time"}

\* Field.clean of one field of instance o: a foreign key names a stored row, a
\* field with choices holds one of them, an IntegerField holds an integer
FieldIsValid(d, o, f) ==
    IF f = "vartype" THEN o[f] \in VarTypes
    ELSE IF f = "metric_type" THEN o[f] \in MetricTypes
    ELSE IF f \in {"time", "execution_time"} THEN o[f] \in Int
    ELSE \E fk \in ForeignKeys :
            fk[1] = o.model /\ fk[2] = f /\ o[f] \in Ids(d, fk[3])

\* models.Model.clean_fields(exclude): TRUE when it raises no ValidationError
BaseCleanFields(d, o, exclude) ==
    \A f \in FieldsOf(o.model) \ exclude : FieldIsValid(d, o, f)

Accepted(exclude) == [raised |-> FALSE, message |-> "", exclude |-> exclude]
Raised(message, exclude) == [raised |-> TRUE, message |-> message, exclude |-> exclude]

FieldErrors == "field errors"

\* MetricCatalogCleanFields with `or` for `and`
MetricCatalogCleanFieldsOr(d, o, exclude) ==
    IF ~ BaseCleanFields(d, o, exclude) THEN Raised(FieldErrors, exclude)
    ELSE IF o.metric_type = "COUNTER" \/ o.vartype # "INTEGER"
         THEN Raised("Counter metrics must be integers.", exclude)
         ELSE Accepted(exclude)

\* MetricCatalog.clean_fields
MetricCatalogCleanFields(d, o, exclude) ==
    IF ~ BaseCleanFields(d, o, exclude) THEN Raised(FieldErrors, exclude)
    ELSE IF o.metric_type = "COUNTER" /\ o.vartype # "INTEGER"
         THEN Raised("Counter metrics must be integers.", exclude)
         ELSE Accepted(exclude)

\* BenchmarkConfigCleanFields with `<` for `<=`
BenchmarkConfigCleanFieldsLess(d, o, exclude) ==
    IF ~ BaseCleanFields(d, o, exclude) THEN Raised(FieldErrors, exclude)
    ELSE IF o.time < 0
         THEN Raised("Time must be greater than 0.", exclude)
         ELSE Accepted(exclude)

\* BenchmarkConfig.clean_fields
BenchmarkConfigCleanFields(d, o, exclude) ==
    IF ~ BaseCleanFields(d, o, exclude) THEN Raised(FieldErrors, exclude)
    ELSE IF o.time <= 0
         THEN Raised("Time must be greater than 0.", exclude)
         ELSE Accepted(exclude)

\* DBMSMetrics.clean_fields
DBMSMetricsCleanFields(d, o, exclude) ==
    IF ~ BaseCleanFields(d, o, exclude) THEN Raised(FieldErrors, exclude)
    ELSE IF o.execution_time <= 0
         THEN Raised("Execution time must be greater than 0.", exclude)
         ELSE Accepted(exclude)

\* obj.clean_fields(exclude=exclude), dispatched on the class of obj
CleanFields(exclude) ==
    /\ pc = "idle"
    /\ obj # NoObj
    /\ outcome' =
          IF obj.model = "MetricCatalog" THEN MetricCatalogCleanFields(db, obj, exclude)
          ELSE IF obj.model = "BenchmarkConfig"
               THEN BenchmarkConfigCleanFields(db, obj, exclude)
               ELSE DBMSMetricsCleanFields(db, obj, exclude)
    /\ UNCHANGED <<db, delVars, seq, obj, ret>>

\* a clean_fields call on any instance with any exclude
Validate == \E exclude \in SUBSET FieldsOf(obj.model) : CleanFields(exclude)

InitValidate ==
    /\ db = BaseDb
    /\ pre = db
    /\ NoCall
    /\ seq = [t \in Tables |-> MaxId(db[t])]
    /\ obj \in MetricCatalogObjects \cup BenchmarkConfigObjects \cup DBMSMetricsObjects
    /\ outcome = NoOutcome
    /\ ret = NoReturn

NextValidate == Validate

SpecValidate == InitValidate /\ [][NextValidate]_vars

BasePassed == outcome # NoOutcome /\ outcome.message # FieldErrors

\* C3: MetricCatalog.clean_fields, the base validation having passed, raises
\* ValidationError exactly when metric_type is COUNTER and vartype is not INTEGER.
C3_CounterMustBeInteger ==
    (obj.model = "MetricCatalog" /\ BasePassed) =>
        /\ outcome.raised <=> (obj.metric_type = "COUNTER" /\ obj.vartype # "INTEGER")
        /\ (obj.metric_type = "COUNTER" /\ obj.vartype = "INTEGER") => ~ outcome.raised
        /\ obj.metric_type # "COUNTER" => ~ outcome.raised

\* a counter of vartype REAL has been rejected although vartype was excluded
C3_Witness ==
    /\ obj.model = "MetricCatalog" /\ BasePassed
    /\ obj.metric_type = "COUNTER" /\ obj.vartype = "REAL"
    /\ "vartype" \in outcome.exclude
    /\ outcome.raised

\* C4: BenchmarkConfig.clean_fields raises exactly when time <= 0 and
\* DBMSMetrics.clean_fields exactly when execution_time <= 0, the base validation
\* having passed, whatever exclude holds.
C4_PositiveTime ==
    /\ (obj.model = "BenchmarkConfig" /\ BasePassed) =>
          /\ outcome.raised <=> obj.time <= 0
          /\ obj.time >= 1 => ~ outcome.raised
    /\ (obj.model = "DBMSMetrics" /\ BasePassed) =>
          /\ outcome.raised <=> obj.execution_time <= 0
          /\ obj.execution_time >= 1 => ~ outcome.raised

\* a BenchmarkConfig of time 0 has been rejected although time was excluded
C4_Witness ==
    /\ obj.model = "BenchmarkConfig" /\ BasePassed
    /\ obj.time = 0
    /\ "time" \in outcome.exclude
    /\ outcome.raised

-----------------------------------------------------------------------------
(* Saving.  No class of the file overrides save, and models.Model.save     *)
(* writes the instance without calling clean_fields or full_clean.         *)

RowOf(o) == [f \in DOMAIN o \ {"model"} |-> o[f]]

ForeignKeysHold(d, o) ==
    \A fk \in ForeignKeys : fk[1] = o.model => o[fk[2]] \in Ids(d, fk[3])

TimeField(o) == IF o.model = "DBMSMetrics" THEN "execution_time" ELSE "time"

\* obj = BenchmarkConfig(...) or obj = DBMSMetrics(...), naming stored rows
New(o) ==
    /\ pc = "idle"
    /\ ForeignKeysHold(db, o)
    /\ obj' = o
    /\ outcome' = NoOutcome
    /\ UNCHANGED <<db, delVars, seq, ret>>

\* obj = Model.objects.get(pk=i)
Get(t, i) ==
    /\ pc = "idle"
    /\ i \in Ids(db, t)
    /\ obj' = [f \in DOMAIN Row(db, t, i) \cup {"model"} |->
                  IF f = "model" THEN t ELSE Row(db, t, i)[f]]
    /\ outcome' = NoOutcome
    /\ UNCHANGED <<db, delVars, seq, ret>>

\* obj.time = v or obj.execution_time = v
SetTime(v) ==
    /\ pc = "idle"
    /\ obj # NoObj
    /\ obj.model \in {"BenchmarkConfig", "DBMSMetrics"}
    /\ obj' = [obj EXCEPT ![TimeField(obj)] = v]
    /\ outcome' = NoOutcome
    /\ UNCHANGED <<db, delVars, seq, ret>>

\* obj.save(): an INSERT with the next primary key when obj has none, an UPDATE
\* of its row otherwise (an INSERT again when that row is no longer stored)
Save ==
    /\ pc = "idle"
    /\ obj # NoObj
    /\ ForeignKeysHold(db, obj)
    /\ IF obj.id = 0
       THEN /\ seq[obj.model] < MaxSaved
            /\ seq' = [seq EXCEPT ![obj.model] = @ + 1]
            /\ obj' = [obj EXCEPT !.id = seq[obj.model] + 1]
       ELSE UNCHANGED <<seq, obj>>
    /\ db' = [db EXCEPT ![obj.model] =
                 { r \in @ : r.id # obj'.id } \cup { RowOf(obj') }]
    /\ UNCHANGED <<delVars, outcome, ret>>

\* obj.delete() of an instance of a class that does not override delete
Delete ==
    /\ pc = "idle"
    /\ obj # NoObj
    /\ obj.id # 0
    /\ db' = ModelDelete(db, obj.model, obj.id)
    /\ obj' = [obj EXCEPT !.id = 0]
    /\ UNCHANGED <<delVars, seq, outcome, ret>>

InitStore ==
    /\ db = BaseDb
    /\ pre = db
    /\ NoCall
    /\ seq = [t \in Tables |-> MaxId(db[t])]
    /\ obj = NoObj
    /\ outcome = NoOutcome
    /\ ret = NoReturn

NextStore ==
    \/ \E o \in BenchmarkConfigObjects \cup DBMSMetricsObjects : New(o)
    \/ \E t \in {"BenchmarkConfig", "DBMSMetrics"} : \E i \in 1 .. MaxSaved : Get(t, i)
    \/ \E v \in TimeValues : SetTime(v)
    \/ Validate
    \/ Save
    \/ Delete

SpecStore == InitStore /\ [][NextStore]_vars

\* C5: every stored DBMSMetrics row has execution_time > 0 and every stored
\* BenchmarkConfig row has time > 0.
C5_StoredTimesPositive ==
    /\ \A r \in db["DBMSMetrics"] : r.execution_time > 0
    /\ \A r \in db["BenchmarkConfig"] : r.time > 0

-----------------------------------------------------------------------------
(* The two views.  A configuration is the text of a JSON object, modelled  *)
(* as the sequence of its <<name, value>> members; a value is a JSON       *)
(* number, [number |-> n], or a JSON string, [string |-> s].               *)

\* the rows of KnobCatalog, and of MetricCatalog
MaxCatalog == 2

CatalogIds == 1 .. MaxCatalog
DBMSIds == {1, 2}
Names == {"a", "b"}

NamesIn(text) == { text[i][1] : i \in DOMAIN text }

\* JSONUtil.loads: the members as a dict, the last member of a name winning
Loads(text) ==
    [n \in NamesIn(text) |->
        text[CHOOSE i \in DOMAIN text :
                /\ text[i][1] = n
                /\ \A j \in DOMAIN text : text[j][1] = n => j <= i][2]]

Placeholder == [string |-> "--"]

EmptyDict == [n \in {} |-> Placeholder]

\* d[k] = v
SetItem(d, k, v) == [n \in DOMAIN d \cup {k} |-> IF n = k THEN v ELSE d[n]]

Returned(call, self, include_all, value) ==
    [kind |-> "returned", call |-> call, self |-> self, include_all |-> include_all,
     value |-> value]
RaisedError(call, self, include_all, error) ==
    [kind |-> "raised", call |-> call, self |-> self, include_all |-> include_all,
     error |-> error]

\* the orders in which a QuerySet without order_by may yield the rows S
Orders(S) ==
    { o \in [1 .. Cardinality(S) -> S] :
        \A i, j \in 1 .. Cardinality(S) : i # j => o[i] # o[j] }

\* TuningLoop with config.get(p.name, '--') for config[p.name]
RECURSIVE TuningLoopLenient(_, _, _, _)
TuningLoopLenient(config, todo, include_all, params) ==
    IF todo = <<>> THEN [error |-> "", params |-> params]
    ELSE LET p == Head(todo)
         IN  IF p.tunable = TRUE
             THEN TuningLoopLenient(config, Tail(todo), include_all,
                      SetItem(params, p.name,
                              IF p.name \in DOMAIN config THEN config[p.name]
                              ELSE Placeholder))
             ELSE IF include_all = TRUE
                  THEN TuningLoopLenient(config, Tail(todo), include_all,
                                         SetItem(params, p.name, Placeholder))
                  ELSE TuningLoopLenient(config, Tail(todo), include_all, params)

\* the loop `for p in param_catalog` of get_tuning_configuration over the rows
\* todo still to come: the params it ends with, or the error it raises
RECURSIVE TuningLoop(_, _, _, _)
TuningLoop(config, todo, include_all, params) ==
    IF todo = <<>> THEN [error |-> "", params |-> params]
    ELSE LET p == Head(todo)
         IN  IF p.tunable = TRUE
             THEN IF p.name \notin DOMAIN config
                  THEN [error |-> "KeyError", params |-> params]
                  ELSE TuningLoop(config, Tail(todo), include_all,
                                  SetItem(params, p.name, config[p.name]))
             ELSE IF include_all = TRUE
                  THEN TuningLoop(config, Tail(todo), include_all,
                                  SetItem(params, p.name, Placeholder))
                  ELSE TuningLoop(config, Tail(todo), include_all, params)

\* KnobCatalogOf without the filter on dbms
KnobCatalogOfAll(d, self) == d["KnobCatalog"]

\* KnobCatalog.objects.filter(dbms=self.dbms)
KnobCatalogOf(d, self) == { p \in d["KnobCatalog"] : p.dbms = self.dbms }

\* DBConf.get_tuning_configuration of the DBConf row c
GetTuningConfiguration(c, include_all) ==
    /\ pc = "idle"
    /\ c \in Ids(db, "DBConf")
    /\ LET self == Row(db, "DBConf", c)
           config == Loads(self.configuration)
       IN  \E param_catalog \in Orders(KnobCatalogOf(db, self)) :
              LET end == TuningLoop(config, param_catalog, include_all, EmptyDict)
              IN  ret' = IF end.error # ""
                         THEN RaisedError("get_tuning_configuration", c, include_all,
                                          end.error)
                         ELSE Returned("get_tuning_configuration", c, include_all,
                                       end.params)
    /\ UNCHANGED <<db, delVars, seq, obj, outcome>>


DigitTexts == <<"0", "1", "2", "3", "4", "5", "6", "7", "8", "9">>

\* float(v): a number as it is, a string by its decimal reading; no value when
\* the string is not the text of a number (ValueError)
Float(v) ==
    IF "number" \in DOMAIN v THEN [ok |-> TRUE, value |-> v.number]
    ELSE IF \E i \in DOMAIN DigitTexts : DigitTexts[i] = v.string
         THEN [ok |-> TRUE,
               value |-> (CHOOSE i \in DOMAIN DigitTexts : DigitTexts[i] = v.string) - 1]
         ELSE [ok |-> FALSE, value |-> 0]

Abs(n) == IF n < 0 THEN 0 - n ELSE n

RECURSIVE GCD(_, _)
GCD(a, b) == IF b = 0 THEN a ELSE GCD(b, a % b)

\* x / t for t # 0, as the fraction in lowest terms with a positive denominator
Quotient(x, t) ==
    LET g == GCD(Abs(x), Abs(t))
        sign == IF t < 0 THEN 0 - 1 ELSE 1
    IN  [num |-> sign * (x \div g), den |-> sign * (t \div g)]

\* NormalizeLoop with the filter on metric_type left out: every metric is divided
RECURSIVE NormalizeLoopEvery(_, _, _, _, _)
NormalizeLoopEvery(config, todo, include_all, execution_time, norm_metrics) ==
    IF todo = <<>> THEN [error |-> "", params |-> norm_metrics]
    ELSE LET m == Head(todo)
         IN  IF m.name \notin DOMAIN config
             THEN [error |-> "KeyError", params |-> norm_metrics]
             ELSE IF ~ Float(config[m.name]).ok
             THEN [error |-> "ValueError", params |-> norm_metrics]
             ELSE IF execution_time = 0
             THEN [error |-> "ZeroDivisionError", params |-> norm_metrics]
             ELSE NormalizeLoopEvery(config, Tail(todo), include_all, execution_time,
                      SetItem(norm_metrics, m.name,
                              Quotient(Float(config[m.name]).value, execution_time)))

\* the loop `for m in metric_catalog` of get_normalized_configuration over the
\* rows todo still to come: the norm_metrics it ends with, or the error it raises
RECURSIVE NormalizeLoop(_, _, _, _, _)
NormalizeLoop(config, todo, include_all, execution_time, norm_metrics) ==
    IF todo = <<>> THEN [error |-> "", params |-> norm_metrics]
    ELSE LET m == Head(todo)
         IN  IF m.metric_type = "COUNTER"
             THEN IF m.name \notin DOMAIN config
                  THEN [error |-> "KeyError", params |-> norm_metrics]
                  ELSE IF ~ Float(config[m.name]).ok
                  THEN [error |-> "ValueError", params |-> norm_metrics]
                  ELSE IF execution_time = 0
                  THEN [error |-> "ZeroDivisionError", params |-> norm_metrics]
                  ELSE NormalizeLoop(config, Tail(todo), include_all, execution_time,
                           SetItem(norm_metrics, m.name,
                                   Quotient(Float(config[m.name]).value, execution_time)))
             ELSE IF include_all = TRUE
                  THEN NormalizeLoop(config, Tail(todo), include_all, execution_time,
                                     SetItem(norm_metrics, m.name, Placeholder))
                  ELSE NormalizeLoop(config, Tail(todo), include_all, execution_time,
                                     norm_metrics)

\* MetricCatalog.objects.filter(dbms=self.dbms)
MetricCatalogOf(d, self) == { m \in d["MetricCatalog"] : m.dbms = self.dbms }

\* DBMSMetrics.get_normalized_configuration of the DBMSMetrics row c
GetNormalizedConfiguration(c, include_all) ==
    /\ pc = "idle"
    /\ c \in Ids(db, "DBMSMetrics")
    /\ LET self == Row(db, "DBMSMetrics", c)
           config == Loads(self.configuration)
       IN  \E metric_catalog \in Orders(MetricCatalogOf(db, self)) :
              LET end == NormalizeLoop(config, metric_catalog, include_all,
                                       self.execution_time, EmptyDict)
              IN  ret' = IF end.error # ""
                         THEN RaisedError("get_normalized_configuration", c,
                                          include_all, end.error)
                         ELSE Returned("get_normalized_configuration", c,
                                       include_all, end.params)
    /\ UNCHANGED <<db, delVars, seq, obj, outcome>>

\* the texts of the JSON objects with member names in Names and values in V
Texts(V) ==
    UNION { { [i \in 1 .. Cardinality(N) |-> <<o[i], f[o[i]]>>]
              : o \in Orders(N), f \in [N -> V] }
            : N \in SUBSET Names }

KnobValues == { [string |-> "on"], [string |-> "--"] }
MetricValues == { [number |-> 6], [string |-> "4"], [string |-> "x"] }

KnobCatalogRows(i) ==
    { [id |-> i, dbms |-> d, name |-> n, tunable |-> t]
      : d \in DBMSIds, n \in Names, t \in BOOLEAN }
MetricCatalogRows(i) ==
    { [id |-> i, dbms |-> d, name |-> n, metric_type |-> m,
       vartype |-> IF m = "COUNTER" THEN "INTEGER" ELSE "STRING"]
      : d \in DBMSIds, n \in Names, m \in MetricTypes }

\* a stored state with a knob catalog and one DBConf, or with a metric catalog
\* and one DBMSMetrics: each view reads the tables of one of the two only
InitView ==
    /\ \/ \E K \in RowSets([i \in CatalogIds |-> KnobCatalogRows(i)]) :
          \E d \in DBMSIds : \E text \in Texts(KnobValues) :
             db = [BaseDb EXCEPT
                     !["DBMSCatalog"] = { [id |-> i] : i \in DBMSIds },
                     !["KnobCatalog"] = K,
                     !["DBConf"] = { [id |-> 1, application |-> 1, dbms |-> d,
                                      configuration |-> text] }]
       \/ \E M \in RowSets([i \in CatalogIds |-> MetricCatalogRows(i)]) :
          \E d \in DBMSIds : \E t \in TimeValues : \E text \in Texts(MetricValues) :
             db = [BaseDb EXCEPT
                     !["DBMSCatalog"] = { [id |-> i] : i \in DBMSIds },
                     !["MetricCatalog"] = M,
                     !["DBMSMetrics"] = { [id |-> 1, application |-> 1, dbms |-> d,
                                           execution_time |-> t,
                                           configuration |-> text] }]
    /\ pre = db
    /\ NoCall
    /\ seq = [t \in Tables |-> MaxId(db[t])]
    /\ obj = NoObj
    /\ outcome = NoOutcome
    /\ ret = NoReturn

NextView ==
    \/ \E include_all \in BOOLEAN : GetTuningConfiguration(1, include_all)
    \/ \E include_all \in BOOLEAN : GetNormalizedConfiguration(1, include_all)

SpecView == InitView /\ [][NextView]_vars

-----------------------------------------------------------------------------
(* Properties of the two views.                                            *)

\* the value the text stores under name n
Stored(text, n) == text[CHOOSE i \in DOMAIN text : text[i][1] = n][2]

TuningReturned == ret.kind = "returned" /\ ret.call = "get_tuning_configuration"
NormalizedReturned == ret.kind = "returned" /\ ret.call = "get_normalized_configuration"

\* the catalog rows of the dbms of the row the last call was made on
KnobsOfCall == { k \in db["KnobCatalog"] : k.dbms = Row(db, "DBConf", ret.self).dbms }
MetricsOfCall ==
    { m \in db["MetricCatalog"] : m.dbms = Row(db, "DBMSMetrics", ret.self).dbms }

TextOfConf == Row(db, "DBConf", ret.self).configuration
TextOfMetrics == Row(db, "DBMSMetrics", ret.self).configuration

\* the first half of C6, which holds as stated: with include_all false the keys
\* are the names of the tunable knobs of the dbms, each mapped to its stored value
TuningOfTunables ==
    (TuningReturned /\ ret.include_all = FALSE) =>
        /\ DOMAIN ret.value = { k.name : k \in { x \in KnobsOfCall : x.tunable } }
        /\ \A n \in DOMAIN ret.value : ret.value[n] = Stored(TextOfConf, n)

\* C6 as stated: the mapping get_tuning_configuration returns is defined by the
\* knob catalog of the dbms: tunable knobs only, mapped to their stored values; with
\* include_all every knob, tunable ones mapped to their stored value and the
\* others to '--'.
C6_Original ==
    /\ TuningOfTunables
    /\ (TuningReturned /\ ret.include_all = TRUE) =>
          /\ DOMAIN ret.value = { k.name : k \in KnobsOfCall }
          /\ \A k \in KnobsOfCall :
                ret.value[k.name] =
                    IF k.tunable THEN Stored(TextOfConf, k.name) ELSE Placeholder

\* C6 as amended: with include_all, a name is mapped to its stored value when
\* every knob of the dbms with that name is tunable, to '--' when none is, and to
\* one of the two when the dbms has both a tunable and a non-tunable knob of that name.
C6_TuningConfiguration ==
    /\ TuningOfTunables
    /\ (TuningReturned /\ ret.include_all = TRUE) =>
          /\ DOMAIN ret.value = { k.name : k \in KnobsOfCall }
          /\ \A n \in DOMAIN ret.value :
                LET named == { k \in KnobsOfCall : k.name = n }
                IN  /\ (\A k \in named : k.tunable) =>
                          ret.value[n] = Stored(TextOfConf, n)
                    /\ (\A k \in named : ~ k.tunable) => ret.value[n] = Placeholder
                    /\ \/ ret.value[n] = Placeholder
                       \/ /\ n \in NamesIn(TextOfConf)
                          /\ ret.value[n] = Stored(TextOfConf, n)

\* a call with include_all has returned a mapping with the stored value of a
\* tunable knob and the '--' of another knob
C6_Witness ==
    /\ TuningReturned /\ ret.include_all = TRUE
    /\ \E n \in DOMAIN ret.value : ret.value[n] = Placeholder
    /\ \E n \in DOMAIN ret.value : ret.value[n] = [string |-> "on"]
    /\ \E k \in KnobsOfCall : ~ k.tunable

ExecutionTimeOfCall == Row(db, "DBMSMetrics", ret.self).execution_time

Normalized(n) == Quotient(Float(Stored(TextOfMetrics, n)).value, ExecutionTimeOfCall)

\* the first half of C7, which holds as stated: with include_all false the keys
\* are the names of the counters of the dbms, each mapped to its stored value
\* divided by execution_time
NormalizedCounters ==
    (NormalizedReturned /\ ret.include_all = FALSE) =>
        /\ DOMAIN ret.value =
              { m.name : m \in { x \in MetricsOfCall : x.metric_type = "COUNTER" } }
        /\ \A n \in DOMAIN ret.value : ret.value[n] = Normalized(n)

\* C7 as stated: the mapping get_normalized_configuration returns is defined by
\* the metric catalog of the dbms: counters only, mapped to stored value /
\* execution_time; with include_all every metric, counters mapped to that quotient
\* and the others to '--'.
C7_Original ==
    /\ NormalizedCounters
    /\ (NormalizedReturned /\ ret.include_all = TRUE) =>
          /\ DOMAIN ret.value = { m.name : m \in MetricsOfCall }
          /\ \A m \in MetricsOfCall :
                ret.value[m.name] =
                    IF m.metric_type = "COUNTER" THEN Normalized(m.name) ELSE Placeholder

\* C7 as amended: with include_all, a name is mapped to the quotient when every
\* metric of the dbms with that name is a counter, to '--' when none is, and to
\* one of the two when the dbms has both a counter and a non-counter of that name.
C7_NormalizedConfiguration ==
    /\ NormalizedCounters
    /\ (NormalizedReturned /\ ret.include_all = TRUE) =>
          /\ DOMAIN ret.value = { m.name : m \in MetricsOfCall }
          /\ \A n \in DOMAIN ret.value :
                LET named == { m \in MetricsOfCall : m.name = n }
                IN  /\ (\A m \in named : m.metric_type = "COUNTER") =>
                          ret.value[n] = Normalized(n)
                    /\ (\A m \in named : m.metric_type # "COUNTER") =>
                          ret.value[n] = Placeholder
                    /\ \/ ret.value[n] = Placeholder
                       \/ /\ n \in NamesIn(TextOfMetrics)
                          /\ ret.value[n] = Normalized(n)

\* a call with include_all has returned a mapping with the quotient 6 / 2 = 3 of
\* a counter and the '--' of a non-counter
C7_Witness ==
    /\ NormalizedReturned /\ ret.include_all = TRUE
    /\ ExecutionTimeOfCall = 2
    /\ \E n \in DOMAIN ret.value : ret.value[n] = [num |-> 3, den |-> 1]
    /\ \E n \in DOMAIN ret.value : ret.value[n] = Placeholder

\* the names a call must read and the text lacks
MissingKnobs ==
    { k.name : k \in { x \in KnobsOfCall : x.tunable } } \ NamesIn(TextOfConf)
MissingCounters ==
    { m.name : m \in { x \in MetricsOfCall : x.metric_type = "COUNTER" } }
        \ NamesIn(TextOfMetrics)

\* C10: a call whose text lacks a name it must read (a tunable knob of the dbms,
\* a counter of the dbms) raises and returns no mapping; a name the text lacks
\* that no tunable knob and no counter of the dbms carries raises nothing, in
\* either include_all mode.
C10_MissingEntryRaises ==
    /\ ret.kind # "not called" /\ ret.call = "get_tuning_configuration" =>
          /\ MissingKnobs # {} => (ret.kind = "raised" /\ ret.error = "KeyError")
          /\ MissingKnobs = {} => ret.kind = "returned"
    /\ ret.kind # "not called" /\ ret.call = "get_normalized_configuration" =>
          /\ MissingCounters # {} => ret.kind = "raised"
          /\ MissingCounters = {} => ~ (ret.kind = "raised" /\ ret.error = "KeyError")
    /\ ret.kind = "raised" => "value" \notin DOMAIN ret

\* a call with include_all has raised KeyError for a tunable knob the text
\* lacks, the dbms having another knob that is not tunable
C10_Witness ==
    /\ ret.kind = "raised" /\ ret.call = "get_tuning_configuration"
    /\ ret.include_all = TRUE
    /\ MissingKnobs # {}
    /\ \E k \in KnobsOfCall : ~ k.tunable /\ k.name \notin MissingKnobs

\* a call has returned although the text lacks the name of a non-counter
C10_WitnessSpared ==
    /\ NormalizedReturned /\ ret.include_all = TRUE
    /\ \E m \in MetricsOfCall :
          m.metric_type # "COUNTER" /\ m.name \notin NamesIn(TextOfMetrics)
    /\ \E m \in MetricsOfCall : m.metric_type = "COUNTER"

====
